---- MODULE Spec2Model ----
(***************************************************************************)
(* Model of the event-window performance simulation of the Market          *)
(* Confidence backend (src/backend/main.py, src/backend/event_analyzer.py).*)
(*                                                                         *)
(* Python floats are modelled as exact rationals <<n, d>> in lowest terms  *)
(* with d > 0, so that products such as close * (allocation / 100) * 0.8   *)
(* are computed without rounding.  A date string "YYYY-MM-DD" is modelled  *)
(* as the sequence of the code points of its ten characters, so that the   *)
(* string comparisons of the code (sorted, >=) are lexicographic here too. *)
(***************************************************************************)
EXTENDS Integers, Sequences, FiniteSets, TLC

\* ------------------------------------------------------------------ bounds
NumDates == 3
MaxMarketLen == 3
MaxLen == 4
MaxValue == 3
MaxPoints == 2

\* ------------------------------------------------------- rational numbers
RECURSIVE Gcd(_, _)
Gcd(a, b) == IF b = 0 THEN a ELSE Gcd(b, a % b)

Abs(x) == IF x < 0 THEN -x ELSE x

\* the rational n/d (d # 0) in lowest terms with a positive denominator
R(n, d) ==
    LET g == Gcd(Abs(n), Abs(d))
        s == IF d < 0 THEN -1 ELSE 1
    IN  <<(s * n) \div g, (s * d) \div g>>

Zero == <<0, 1>>
RAdd(a, b) == R(a[1] * b[2] + b[1] * a[2], a[2] * b[2])
RSub(a, b) == R(a[1] * b[2] - b[1] * a[2], a[2] * b[2])
RMul(a, b) == R(a[1] * b[1], a[2] * b[2])
\* a / b for b # 0; the callers model Python's ZeroDivisionError for b = 0
RDiv(a, b) == R(a[1] * b[2], a[2] * b[1])
RLt(a, b) == a[1] * b[2] < b[1] * a[2]
RLeq(a, b) == a[1] * b[2] <= b[1] * a[2]
RMax(a, b) == IF RLt(a, b) THEN b ELSE a

\* ------------------------------------------------------------------ dates
\* the trading days the price provider knows (pandas Timestamps)
TimestampList ==
    << [year |-> 2020, month |-> 2, day |-> 27],
       [year |-> 2020, month |-> 2, day |-> 28],
       [year |-> 2020, month |-> 3, day |-> 2],
       [year |-> 2020, month |-> 3, day |-> 3],
       [year |-> 2020, month |-> 3, day |-> 4],
       [year |-> 2020, month |-> 3, day |-> 5],
       [year |-> 2020, month |-> 3, day |-> 6],
       [year |-> 2020, month |-> 3, day |-> 9] >>

Digit(k) == 48 + k
Dash == 45

\* date.strftime("%Y-%m-%d")
Strftime(ts) ==
    << Digit(ts.year \div 1000), Digit((ts.year \div 100) % 10),
       Digit((ts.year \div 10) % 10), Digit(ts.year % 10), Dash,
       Digit(ts.month \div 10), Digit(ts.month % 10), Dash,
       Digit(ts.day \div 10), Digit(ts.day % 10) >>

\* datetime.datetime.strptime(s, "%Y-%m-%d")
Strptime(s) ==
    [year  |-> (s[1] - 48) * 1000 + (s[2] - 48) * 100 + (s[3] - 48) * 10 + (s[4] - 48),
     month |-> (s[6] - 48) * 10 + (s[7] - 48),
     day   |-> (s[9] - 48) * 10 + (s[10] - 48)]

\* Python's str comparison: lexicographic on code points
RECURSIVE StrLtFrom(_, _, _)
StrLtFrom(a, b, k) ==
    IF k > Len(a) THEN k <= Len(b)
    ELSE IF k > Len(b) THEN FALSE
    ELSE IF a[k] # b[k] THEN a[k] < b[k]
    ELSE StrLtFrom(a, b, k + 1)

StrLt(a, b) == StrLtFrom(a, b, 1)
StrGeq(a, b) == ~StrLt(a, b)

IsLeap(y) == (y % 4 = 0 /\ y % 100 # 0) \/ y % 400 = 0

DaysInMonth(y, m) ==
    IF m = 2 THEN (IF IsLeap(y) THEN 29 ELSE 28)
    ELSE IF m \in {4, 6, 9, 11} THEN 30 ELSE 31

RECURSIVE DaysBeforeMonth(_, _)
DaysBeforeMonth(y, m) ==
    IF m <= 1 THEN 0 ELSE DaysBeforeMonth(y, m - 1) + DaysInMonth(y, m - 1)

\* datetime's proleptic Gregorian ordinal
Ordinal(dt) ==
    LET y == dt.year - 1
    IN  y * 365 + y \div 4 - y \div 100 + y \div 400
        + DaysBeforeMonth(dt.year, dt.month) + dt.day

\* (b - a).days
DaysBetween(a, b) == Ordinal(b) - Ordinal(a)

\* mutation of Sorted: sorted(..., reverse=True)
RECURSIVE SortedDescending(_)
SortedDescending(S) ==
    IF S = {} THEN <<>>
    ELSE LET m == CHOOSE x \in S : \A y \in S : ~StrLt(x, y)
         IN  <<m>> \o SortedDescending(S \ {m})

\* sorted(list(dates)) for a set of date strings
RECURSIVE Sorted(_)
Sorted(S) ==
    IF S = {} THEN <<>>
    ELSE LET m == CHOOSE x \in S : \A y \in S : ~StrLt(y, x)
         IN  <<m>> \o Sorted(S \ {m})

\* ------------------------------------------------- optional values (None)
NoDate == <<>>
NoDays == [some |-> FALSE, days |-> 0]
SomeDays(n) == [some |-> TRUE, days |-> n]
NoAmount == [some |-> FALSE, value |-> Zero]
SomeAmount(x) == [some |-> TRUE, value |-> x]

\* ------------------------------------------------------ scenario valuator
\* mutation of AdjustmentFactor: date > middle_date, the pivot date left out
AdjustmentFactorAfterPivot(scenario, middle_date, date) ==
    IF scenario = "withdraw" /\ middle_date # NoDate /\ StrLt(middle_date, date)
    THEN R(8, 10)
    ELSE IF scenario = "add" /\ middle_date # NoDate /\ StrLt(middle_date, date)
    THEN R(12, 10)
    ELSE R(1, 1)

\* the adjustment factor chosen at the top of the loop body
AdjustmentFactor(scenario, middle_date, date) ==
    IF scenario = "withdraw" /\ middle_date # NoDate /\ StrGeq(date, middle_date)
    THEN R(8, 10)
    ELSE IF scenario = "add" /\ middle_date # NoDate /\ StrGeq(date, middle_date)
    THEN R(12, 10)
    ELSE R(1, 1)

\* next((d for d in asset_data if d["date"] == date), None): the index of the
\* first point at that date, 0 for None
RECURSIVE FirstPointFrom(_, _, _)
FirstPointFrom(asset_data, date, k) ==
    IF k > Len(asset_data) THEN 0
    ELSE IF asset_data[k].date = date THEN k
    ELSE FirstPointFrom(asset_data, date, k + 1)

\* the index of the last point dated at or before date, 0 for none
RECURSIVE LastPointUpTo(_, _, _, _)
LastPointUpTo(asset_data, date, k, found) ==
    IF k > Len(asset_data) THEN found
    ELSE LastPointUpTo(asset_data, date, k + 1,
             IF StrGeq(date, asset_data[k].date) THEN k ELSE found)

\* mutation of Contribution: a date missing from the series takes the close
\* of the latest earlier point (forward fill)
ContributionCarriedForward(asset_data, date) ==
    LET k == LastPointUpTo(asset_data, date, 1, 0)
    IN  IF k = 0 THEN Zero
        ELSE RMul(asset_data[k].close, RDiv(asset_data[k].allocation, R(100, 1)))

\* what one asset adds to portfolio_value at a date
Contribution(asset_data, date) ==
    LET k == FirstPointFrom(asset_data, date, 1)
    IN  IF k = 0 THEN Zero
        ELSE RMul(asset_data[k].close, RDiv(asset_data[k].allocation, R(100, 1)))

\* the inner loop over event_data.items()
RECURSIVE RawValue(_, _, _)
RawValue(event_data, symbols, date) ==
    IF symbols = {} THEN Zero
    ELSE LET s == CHOOSE x \in symbols : TRUE
         IN  RAdd(Contribution(event_data[s], date),
                  RawValue(event_data, symbols \ {s}, date))

\* the value appended for one date
ScenarioValue(event_data, date, scenario, middle_date, portfolio) ==
    LET adjusted == RMul(RawValue(event_data, DOMAIN event_data, date),
                         AdjustmentFactor(scenario, middle_date, date))
    IN  IF portfolio.investment_amount.some /\ RLt(Zero, adjusted)
        THEN RMul(adjusted, portfolio.investment_amount.value)
        ELSE adjusted

RECURSIVE PerformanceFrom(_, _, _, _, _, _)
PerformanceFrom(event_data, dates, scenario, middle_date, portfolio, k) ==
    IF k > Len(dates) THEN <<>>
    ELSE <<[date  |-> dates[k],
            value |-> ScenarioValue(event_data, dates[k], scenario, middle_date, portfolio)]>>
         \o PerformanceFrom(event_data, dates, scenario, middle_date, portfolio, k + 1)

\* mutation of calculate_scenario_performance: a date is appended only when
\* its value is not 0
calculate_scenario_performance_nonzero(event_data, dates, scenario, middle_date, portfolio) ==
    SelectSeq(PerformanceFrom(event_data, dates, scenario, middle_date, portfolio, 1),
              LAMBDA point : point.value # Zero)

calculate_scenario_performance(event_data, dates, scenario, middle_date, portfolio) ==
    PerformanceFrom(event_data, dates, scenario, middle_date, portfolio, 1)

\* ----------------------------------------------------- metrics calculator
\* an uncaught ZeroDivisionError leaving calculate_performance_metrics
MetricsFault ==
    [fault |-> TRUE, total_return |-> Zero, max_drawdown |-> Zero,
     recovery_days |-> NoDays]

MetricsOf(tr, dd, rec) ==
    [fault |-> FALSE, total_return |-> tr, max_drawdown |-> dd,
     recovery_days |-> rec]

\* mutation of TotalReturn: the difference is taken the other way round,
\* initial_value - final_value
TotalReturnReversed(pd) ==
    LET initial_value == pd[1].value
        final_value == pd[Len(pd)].value
    IN  IF initial_value = Zero
        THEN [fault |-> TRUE, value |-> Zero]
        ELSE [fault |-> FALSE,
              value |-> RMul(RDiv(RSub(initial_value, final_value), initial_value),
                             R(100, 1))]

\* total_return; fault is the division by an initial value of 0
TotalReturn(pd) ==
    LET initial_value == pd[1].value
        final_value == pd[Len(pd)].value
    IN  IF initial_value = Zero
        THEN [fault |-> TRUE, value |-> Zero]
        ELSE [fault |-> FALSE,
              value |-> RMul(RDiv(RSub(final_value, initial_value), initial_value),
                             R(100, 1))]

\* the loop over the points: running peak, running maximum of the drawdown;
\* fault is the division by a peak of 0
RECURSIVE DrawdownFrom(_, _, _, _)
DrawdownFrom(pd, k, peak_value, max_drawdown) ==
    IF k > Len(pd) THEN [fault |-> FALSE, value |-> max_drawdown]
    ELSE LET peak == IF RLt(peak_value, pd[k].value) THEN pd[k].value ELSE peak_value
         IN  IF peak = Zero THEN [fault |-> TRUE, value |-> Zero]
             ELSE DrawdownFrom(pd, k + 1, peak,
                      RMax(max_drawdown,
                           RMul(RDiv(RSub(peak, pd[k].value), peak), R(100, 1))))

MaxDrawdown(pd) == DrawdownFrom(pd, 1, pd[1].value, Zero)

\* min(range(len(pd)), key=value): the first index holding the least value
RECURSIVE LowestFrom(_, _, _)
LowestFrom(pd, k, best) ==
    IF k > Len(pd) THEN best
    ELSE LowestFrom(pd, k + 1, IF RLt(pd[k].value, pd[best].value) THEN k ELSE best)

LowestPointIdx(pd) == LowestFrom(pd, 2, 1)

\* mutation of RecoveryFrom: the scan looks for the first value >= the
\* lowest value in place of the initial value
RECURSIVE RecoveryFromLowest(_, _, _)
RecoveryFromLowest(pd, low, k) ==
    IF k > Len(pd) THEN NoDays
    ELSE IF RLeq(pd[low].value, pd[k].value)
    THEN SomeDays(DaysBetween(Strptime(pd[low].date), Strptime(pd[k].date)))
    ELSE RecoveryFromLowest(pd, low, k + 1)

\* the scan after the lowest point for the first value >= initial_value
RECURSIVE RecoveryFrom(_, _, _)
RecoveryFrom(pd, low, k) ==
    IF k > Len(pd) THEN NoDays
    ELSE IF RLeq(pd[1].value, pd[k].value)
    THEN SomeDays(DaysBetween(Strptime(pd[low].date), Strptime(pd[k].date)))
    ELSE RecoveryFrom(pd, low, k + 1)

RecoveryDays(pd) ==
    LET low == LowestPointIdx(pd)
    IN  IF low < Len(pd) THEN RecoveryFrom(pd, low, low + 1) ELSE NoDays

\* mutation of calculate_performance_metrics: the guard is only
\* "if not performance_data", so a single point goes through the divisions
calculate_performance_metrics_nonempty(pd) ==
    IF Len(pd) < 1 THEN MetricsOf(Zero, Zero, NoDays)
    ELSE LET tr == TotalReturn(pd)
         IN  IF tr.fault THEN MetricsFault
             ELSE LET dd == MaxDrawdown(pd)
                  IN  IF dd.fault THEN MetricsFault
                      ELSE MetricsOf(tr.value, dd.value, RecoveryDays(pd))

calculate_performance_metrics(pd) ==
    IF Len(pd) < 2 THEN MetricsOf(Zero, Zero, NoDays)
    ELSE LET tr == TotalReturn(pd)
         IN  IF tr.fault THEN MetricsFault
             ELSE LET dd == MaxDrawdown(pd)
                  IN  IF dd.fault THEN MetricsFault
                      ELSE MetricsOf(tr.value, dd.value, RecoveryDays(pd))

\* ------------------------------------------------------- investment advice
\* mutation of BestFrom: min in place of max
RECURSIVE BestFromLowest(_, _, _)
BestFromLowest(results, k, best) ==
    IF k > Len(results) THEN results[best].scenario
    ELSE BestFromLowest(results, k + 1,
             IF RLt(results[k].total_return, results[best].total_return)
             THEN k ELSE best)

\* max(scenarios.items(), key=total_return)[0]: the first result, in list
\* order, whose total_return no other result exceeds
RECURSIVE BestFrom(_, _, _)
BestFrom(results, k, best) ==
    IF k > Len(results) THEN results[best].scenario
    ELSE BestFrom(results, k + 1,
             IF RLt(results[best].total_return, results[k].total_return)
             THEN k ELSE best)

BestScenario(results) == BestFrom(results, 2, 1)

\* openai_ok: whether the chat completion call returned
generate_investment_advice(results, openai_ok) ==
    IF openai_ok
    THEN [best_scenario |-> BestScenario(results), text |-> "generated"]
    ELSE [best_scenario |-> "No Changes", text |-> "unable"]

\* ------------------------------------------------------------------ state
VARIABLES
    portfolios,          \* the global portfolio store: id -> Portfolio
    pc,                  \* position of simulate_portfolio_event
    portfolio,           \* its local: the portfolio looked up
    asset_idx,           \* its loop over portfolio.assets (1-based)
    event_data,          \* its local: symbol -> list of points
    dates,               \* its local: the aligned date axis
    middle_idx,          \* its local: len(dates) // 2 (0-based), -1 before
    middle_date,         \* its local: dates[middle_idx]
    simulation_results,  \* its local: the results appended so far
    openai,              \* how the chat completion call of this request ended
    advice,              \* its local: what generate_investment_advice returned
    response,            \* what the handler answered
    performance_data,    \* the argument of a direct metrics call
    metrics,             \* what that call returned
    market_data,         \* the index history analyze_event is given
    impact               \* what calculate_market_impact made of it

vars ==
    <<portfolios, pc, portfolio, asset_idx, event_data, dates, middle_idx,
      middle_date, simulation_results, openai, advice, response,
      performance_data, metrics, market_data, impact>>

locals ==
    <<portfolio, asset_idx, event_data, dates, middle_idx, middle_date,
      simulation_results, openai, advice>>

harness == <<performance_data, metrics, market_data, impact>>

\* ----------------------------------------------------------------- inputs
PortfolioIds == {"p1"}
Symbols == <<"A", "B">>
Allocations == {0, 50, 100}
Amounts == {NoAmount, SomeAmount(R(2, 1))}
Closes == {1, 2}

Asset(k, a) == [symbol |-> Symbols[k], allocation |-> R(a, 1)]

AssetLists ==
    {<<>>}
    \cup {<<Asset(1, a)>> : a \in Allocations}
    \cup {<<Asset(1, 100), Asset(2, 50)>>}

\* what a client may post to create_portfolio
PortfolioInputs ==
    {[assets |-> l, investment_amount |-> m] : l \in AssetLists, m \in Amounts}

Timestamps == 1..NumDates

\* what data.history(start, end) may return: rows for some of the trading
\* days, in date order, one per day
Histories == UNION {[S -> Closes] : S \in SUBSET Timestamps}

\* the rows of a history appended as points, in index order
RECURSIVE AssetData(_, _, _)
AssetData(history, allocation, k) ==
    IF k > NumDates THEN <<>>
    ELSE (IF k \in DOMAIN history
          THEN <<[date       |-> Strftime(TimestampList[k]),
                  close      |-> R(history[k], 1),
                  allocation |-> allocation]>>
          ELSE <<>>)
         \o AssetData(history, allocation, k + 1)

NoPortfolio == [assets |-> <<>>, investment_amount |-> NoAmount]
NoAdvice == [best_scenario |-> "", text |-> ""]
NoResponse == [status |-> 0, detail |-> ""]
NoMetrics == MetricsOf(Zero, Zero, NoDays)

\* the dict calculate_market_impact returns; kind tells which of its returns
\* it is ("all None", "pre only", "full"), or that the call raised
\* ("ZeroDivisionError"), or that there was no call ("not called")
Impact(kind, pre, low, cur, pct, rec, recovered) ==
    [kind            |-> kind,
     pre_event_value |-> pre,
     lowest_value    |-> low,
     current_value   |-> cur,
     percent_change  |-> pct,
     recovery_days   |-> rec,
     recovered       |-> recovered]

NoImpact == Impact("not called", Zero, Zero, Zero, Zero, NoDays, FALSE)
Empty == [s \in {} |-> <<>>]

LocalsAtEntry ==
    /\ portfolio = NoPortfolio
    /\ asset_idx = 1
    /\ event_data = Empty
    /\ dates = <<>>
    /\ middle_idx = -1
    /\ middle_date = NoDate
    /\ simulation_results = <<>>
    /\ openai = "not called"
    /\ advice = NoAdvice

Init ==
    /\ portfolios = Empty
    /\ pc = "idle"
    /\ LocalsAtEntry
    /\ response = NoResponse
    /\ performance_data = <<>>
    /\ metrics = NoMetrics
    /\ market_data = <<>>
    /\ impact = NoImpact

\* ------------------------------------------------------- portfolio store
\* POST /api/portfolios; the fresh uuid is an id not in the store
create_portfolio(id, input) ==
    /\ pc = "idle"
    /\ id \notin DOMAIN portfolios
    /\ portfolios' = [k \in DOMAIN portfolios \cup {id} |->
                         IF k = id THEN input ELSE portfolios[k]]
    /\ UNCHANGED <<pc, locals, response, harness>>

\* DELETE /api/portfolios/{portfolio_id}, for an id in the store
delete_portfolio(id) ==
    /\ pc = "idle"
    /\ id \in DOMAIN portfolios
    /\ portfolios' = [k \in DOMAIN portfolios \ {id} |-> portfolios[k]]
    /\ UNCHANGED <<pc, locals, response, harness>>

\* ------------------------------------------- simulate_portfolio_event
Raise(status, detail) ==
    /\ response' = [status |-> status, detail |-> detail]
    /\ pc' = "done"

\* entry: the lookup in the store
Lookup(id) ==
    /\ pc = "idle"
    /\ IF id \notin DOMAIN portfolios
       THEN /\ Raise(404, "Portfolio not found")
            /\ UNCHANGED locals
       ELSE /\ portfolio' = portfolios[id]
            /\ pc' = "analyze"
            /\ response' = NoResponse
            /\ UNCHANGED <<asset_idx, event_data, dates, middle_idx, middle_date,
                           simulation_results, openai, advice>>
    /\ UNCHANGED <<portfolios, harness>>

\* calculate_market_impact divides by pre_event_days = min(30, len // 3)
MarketImpactFaults(market_len) ==
    LET third == market_len \div 3
        pre_event_days == IF 30 < third THEN 30 ELSE third
    IN  pre_event_days = 0

\* sum(item["close"] for item in market_data[:n])
RECURSIVE SumCloses(_, _)
SumCloses(data, n) ==
    IF n = 0 THEN Zero ELSE RAdd(SumCloses(data, n - 1), data[n].close)

\* min(event_data, key=close): the first index holding the least close
RECURSIVE LowestCloseFrom(_, _, _)
LowestCloseFrom(data, k, best) ==
    IF k > Len(data) THEN best
    ELSE LowestCloseFrom(data, k + 1,
             IF RLt(data[k].close, data[best].close) THEN k ELSE best)

\* next(i for i, item in enumerate(event_data) if item["date"] == date, 0)
RECURSIVE FirstDatedFrom(_, _, _)
FirstDatedFrom(data, date, k) ==
    IF k > Len(data) THEN 1
    ELSE IF data[k].date = date THEN k
    ELSE FirstDatedFrom(data, date, k + 1)

\* the scan after the lowest point for the first close >= pre_event_value
RECURSIVE ImpactRecoveryFrom(_, _, _, _)
ImpactRecoveryFrom(data, lowest_date, pre_event_value, k) ==
    IF k > Len(data) THEN NoDays
    ELSE IF RLeq(pre_event_value, data[k].close)
    THEN SomeDays(DaysBetween(Strptime(lowest_date), Strptime(data[k].date)))
    ELSE ImpactRecoveryFrom(data, lowest_date, pre_event_value, k + 1)

calculate_market_impact(data) ==
    IF Len(data) < 2
    THEN Impact("all None", Zero, Zero, Zero, Zero, NoDays, FALSE)
    ELSE IF MarketImpactFaults(Len(data))
    THEN Impact("ZeroDivisionError", Zero, Zero, Zero, Zero, NoDays, FALSE)
    ELSE
    LET third == Len(data) \div 3
        pre_event_days == IF 30 < third THEN 30 ELSE third
        pre_event_value == RDiv(SumCloses(data, pre_event_days), R(pre_event_days, 1))
        event == SubSeq(data, pre_event_days + 1, Len(data))
    IN  IF event = <<>>
        THEN Impact("pre only", pre_event_value, Zero, Zero, Zero, NoDays, FALSE)
        ELSE IF pre_event_value = Zero
        THEN Impact("ZeroDivisionError", Zero, Zero, Zero, Zero, NoDays, FALSE)
        ELSE
        LET lowest_point == event[LowestCloseFrom(event, 2, 1)]
            current_value == event[Len(event)].close
            recovered == RLeq(pre_event_value, current_value)
        IN  Impact("full", pre_event_value, lowest_point.close, current_value,
                   RMul(RDiv(RSub(lowest_point.close, pre_event_value), pre_event_value),
                        R(100, 1)),
                   IF recovered
                   THEN ImpactRecoveryFrom(event, lowest_point.date, pre_event_value,
                            FirstDatedFrom(event, lowest_point.date, 1) + 1)
                   ELSE NoDays,
                   recovered)

\* analyze_event(request.event): period_known is whether the resolver gave
\* start_date and end_date, market_len the length of the index history
AnalyzeEvent(period_known, market_len) ==
    /\ pc = "analyze"
    /\ IF ~period_known
       THEN Raise(400, "Could not determine event time period")
       ELSE IF market_len >= 2 /\ MarketImpactFaults(market_len)
       THEN Raise(500, "ZeroDivisionError in calculate_market_impact")
       ELSE /\ pc' = "fetch"
            /\ UNCHANGED response
    /\ UNCHANGED <<portfolios, locals, harness>>

\* one pass of the loop over portfolio.assets: the history is fetched and
\* its rows stored under the symbol
FetchAsset(history) ==
    /\ pc = "fetch"
    /\ asset_idx <= Len(portfolio.assets)
    /\ LET asset == portfolio.assets[asset_idx]
       IN  event_data' =
               [s \in DOMAIN event_data \cup {asset.symbol} |->
                   IF s = asset.symbol
                   THEN AssetData(history, asset.allocation, 1)
                   ELSE event_data[s]]
    /\ asset_idx' = asset_idx + 1
    /\ UNCHANGED <<portfolios, pc, portfolio, dates, middle_idx, middle_date,
                   simulation_results, openai, advice, response, harness>>

\* one pass of the loop in which the provider raises: the asset is skipped
FetchAssetRaises ==
    /\ pc = "fetch"
    /\ asset_idx <= Len(portfolio.assets)
    /\ asset_idx' = asset_idx + 1
    /\ UNCHANGED <<portfolios, pc, portfolio, event_data, dates, middle_idx,
                   middle_date, simulation_results, openai, advice, response,
                   harness>>

\* the date-axis aligner: every date of every point, sorted
AlignedDates(data) ==
    Sorted(UNION {{data[s][k].date : k \in 1..Len(data[s])} : s \in DOMAIN data})

InsufficientData(axis) == Len(axis) = 0

\* mutation of AlignDates: the pivot is taken before the guard, so that
\* dates[middle_idx] raises IndexError on an empty axis
AlignDatesPivotFirst ==
    /\ pc = "fetch"
    /\ asset_idx > Len(portfolio.assets)
    /\ \E axis \in {AlignedDates(event_data)} :
           /\ dates' = axis
           /\ middle_idx' = Len(axis) \div 2
           /\ IF Len(axis) = 0
              THEN /\ Raise(500, "IndexError")
                   /\ UNCHANGED middle_date
              ELSE /\ middle_date' = axis[(Len(axis) \div 2) + 1]
                   /\ pc' = "no_change"
                   /\ UNCHANGED response
    /\ UNCHANGED <<portfolios, portfolio, asset_idx, event_data,
                   simulation_results, openai, advice, harness>>

\* mutation of AlignDates: the pivot is the lower middle, (len(dates) - 1) // 2
AlignDatesLowerMiddle ==
    /\ pc = "fetch"
    /\ asset_idx > Len(portfolio.assets)
    /\ \E axis \in {AlignedDates(event_data)} :
           /\ dates' = axis
           /\ IF InsufficientData(axis)
              THEN /\ Raise(400, "Insufficient market data for simulation")
                   /\ UNCHANGED <<middle_idx, middle_date>>
              ELSE /\ middle_idx' = (Len(axis) - 1) \div 2
                   /\ middle_date' = axis[((Len(axis) - 1) \div 2) + 1]
                   /\ pc' = "no_change"
                   /\ UNCHANGED response
    /\ UNCHANGED <<portfolios, portfolio, asset_idx, event_data,
                   simulation_results, openai, advice, harness>>

\* after the loop: the axis, the guard on an empty axis, the pivot
AlignDates ==
    /\ pc = "fetch"
    /\ asset_idx > Len(portfolio.assets)
    /\ \E axis \in {AlignedDates(event_data)} :
           /\ dates' = axis
           /\ IF InsufficientData(axis)
              THEN /\ Raise(400, "Insufficient market data for simulation")
                   /\ UNCHANGED <<middle_idx, middle_date>>
              ELSE /\ middle_idx' = Len(axis) \div 2
                   /\ middle_date' = axis[(Len(axis) \div 2) + 1]
                   /\ pc' = "no_change"
                   /\ UNCHANGED response
    /\ UNCHANGED <<portfolios, portfolio, asset_idx, event_data,
                   simulation_results, openai, advice, harness>>

ScenarioName(scenario) ==
    IF scenario = "no_change" THEN "No Changes"
    ELSE IF scenario = "withdraw" THEN "20% Withdrawal"
    ELSE "20% Addition"

\* the pivot argument of the call: no_change is called without one
PivotArg(scenario) == IF scenario = "no_change" THEN NoDate ELSE middle_date

NextScenario(scenario) ==
    IF scenario = "no_change" THEN "withdraw"
    ELSE IF scenario = "withdraw" THEN "add"
    ELSE "advice"

\* mutation of RunScenario: the valuator applies the adjustment factor to the
\* stored points in place (data_point["close"] *= adjustment_factor) and sums
\* the adjusted closes
RunScenarioAdjustingInPlace(scenario) ==
    /\ pc = scenario
    /\ \E performance \in {calculate_scenario_performance(
                              event_data, dates, scenario, PivotArg(scenario), portfolio)} :
       \E m \in {calculate_performance_metrics(performance)} :
           IF m.fault
           THEN /\ Raise(500, "ZeroDivisionError in calculate_performance_metrics")
                /\ UNCHANGED simulation_results
           ELSE /\ simulation_results' = Append(simulation_results,
                       [scenario      |-> ScenarioName(scenario),
                        performance   |-> performance,
                        total_return  |-> m.total_return,
                        max_drawdown  |-> m.max_drawdown,
                        recovery_days |-> m.recovery_days])
                /\ pc' = NextScenario(scenario)
                /\ UNCHANGED response
    /\ event_data' =
           [s \in DOMAIN event_data |->
               [k \in 1..Len(event_data[s]) |->
                   [event_data[s][k] EXCEPT
                       !.close = RMul(@, AdjustmentFactor(scenario, PivotArg(scenario),
                                                          event_data[s][k].date))]]]
    /\ UNCHANGED <<portfolios, portfolio, asset_idx, dates,
                   middle_idx, middle_date, openai, advice, harness>>

\* one scenario: the valuator, the metrics, the result appended; an
\* exception of the metrics leaves the handler
RunScenario(scenario) ==
    /\ pc = scenario
    /\ \E performance \in {calculate_scenario_performance(
                              event_data, dates, scenario, PivotArg(scenario), portfolio)} :
       \E m \in {calculate_performance_metrics(performance)} :
           IF m.fault
           THEN /\ Raise(500, "ZeroDivisionError in calculate_performance_metrics")
                /\ UNCHANGED simulation_results
           ELSE /\ simulation_results' = Append(simulation_results,
                       [scenario      |-> ScenarioName(scenario),
                        performance   |-> performance,
                        total_return  |-> m.total_return,
                        max_drawdown  |-> m.max_drawdown,
                        recovery_days |-> m.recovery_days])
                /\ pc' = NextScenario(scenario)
                /\ UNCHANGED response
    /\ UNCHANGED <<portfolios, portfolio, asset_idx, event_data, dates,
                   middle_idx, middle_date, openai, advice, harness>>

\* the advice and the return of the handler
Advise(openai_ok) ==
    /\ pc = "advice"
    /\ openai' = IF openai_ok THEN "returned" ELSE "raised"
    /\ advice' = generate_investment_advice(simulation_results, openai_ok)
    /\ Raise(200, "OK")
    /\ UNCHANGED <<portfolios, portfolio, asset_idx, event_data, dates,
                   middle_idx, middle_date, simulation_results, harness>>

\* the handler has answered; its locals are gone before the next request
Finish ==
    /\ pc = "done"
    /\ pc' = "idle"
    /\ portfolio' = NoPortfolio
    /\ asset_idx' = 1
    /\ event_data' = Empty
    /\ dates' = <<>>
    /\ middle_idx' = -1
    /\ middle_date' = NoDate
    /\ simulation_results' = <<>>
    /\ openai' = "not called"
    /\ advice' = NoAdvice
    /\ response' = NoResponse
    /\ UNCHANGED <<portfolios, harness>>

Next ==
    \/ \E id \in PortfolioIds, input \in PortfolioInputs : create_portfolio(id, input)
    \/ \E id \in PortfolioIds : delete_portfolio(id)
    \/ \E id \in PortfolioIds : Lookup(id)
    \/ \E known \in BOOLEAN, n \in 0..MaxMarketLen : AnalyzeEvent(known, n)
    \/ \E h \in Histories : FetchAsset(h)
    \/ FetchAssetRaises
    \/ AlignDates
    \/ \E scenario \in {"no_change", "withdraw", "add"} : RunScenario(scenario)
    \/ \E ok \in BOOLEAN : Advise(ok)
    \/ Finish

Spec == Init /\ [][Next]_vars

\* ------------------------------------- direct calls of the pure functions
\* a value series: a value at some of the first MaxLen trading days
RECURSIVE SeriesOf(_, _)
SeriesOf(f, k) ==
    IF k > MaxLen THEN <<>>
    ELSE (IF k \in DOMAIN f
          THEN <<[date |-> Strftime(TimestampList[k]), value |-> R(f[k], 1)]>>
          ELSE <<>>)
         \o SeriesOf(f, k + 1)

SeriesInputs ==
    {SeriesOf(f, 1) : f \in UNION {[S -> 0..MaxValue] : S \in SUBSET (1..MaxLen)}}

InitMetrics ==
    /\ portfolios = Empty
    /\ pc = "metrics_call"
    /\ LocalsAtEntry
    /\ response = NoResponse
    /\ performance_data \in SeriesInputs
    /\ metrics = NoMetrics
    /\ market_data = <<>>
    /\ impact = NoImpact

\* calculate_performance_metrics(performance_data) called on its own
CallMetrics ==
    /\ pc = "metrics_call"
    /\ metrics' = calculate_performance_metrics(performance_data)
    /\ pc' = "metrics_return"
    /\ UNCHANGED <<portfolios, locals, response, performance_data, market_data,
                   impact>>

SpecMetrics == InitMetrics /\ [][CallMetrics]_vars

\* per-asset series as lists of points in any order, dates repeated or not
TimestampLists == UNION {[1..m -> Timestamps] : m \in 0..MaxPoints}

PointList(t, allocation) ==
    [k \in 1..Len(t) |-> [date       |-> Strftime(TimestampList[t[k]]),
                          close      |-> R(1, 1),
                          allocation |-> allocation]]

AlignPortfolio ==
    [assets |-> <<Asset(1, 100), Asset(2, 50)>>, investment_amount |-> NoAmount]

AlignInputs ==
    {[s \in DOMAIN f |->
         PointList(f[s], IF s = Symbols[1] THEN R(100, 1) ELSE R(50, 1))] :
        f \in UNION {[S -> TimestampLists] : S \in SUBSET {Symbols[1], Symbols[2]}}}

\* the handler at the end of its fetch loop, over any per-asset series
InitAlign ==
    /\ portfolios = [id \in PortfolioIds |-> AlignPortfolio]
    /\ pc = "fetch"
    /\ portfolio = AlignPortfolio
    /\ asset_idx = Len(AlignPortfolio.assets) + 1
    /\ event_data \in AlignInputs
    /\ dates = <<>>
    /\ middle_idx = -1
    /\ middle_date = NoDate
    /\ simulation_results = <<>>
    /\ openai = "not called"
    /\ advice = NoAdvice
    /\ response = NoResponse
    /\ performance_data = <<>>
    /\ metrics = NoMetrics
    /\ market_data = <<>>
    /\ impact = NoImpact

SpecAlign == InitAlign /\ [][AlignDates]_vars

\* ------------------------------------------- the handler on given histories
\* the rows history.iterrows() yields: (Timestamp, Close) pairs in index order
PointsOf(rows, allocation) ==
    [k \in 1..Len(rows) |-> [date       |-> Strftime(rows[k].timestamp),
                             close      |-> R(rows[k].close, 1),
                             allocation |-> allocation]]

\* one pass of the loop over portfolio.assets for a history given as rows
FetchAssetRows(rows) ==
    /\ pc = "fetch"
    /\ asset_idx <= Len(portfolio.assets)
    /\ LET asset == portfolio.assets[asset_idx]
       IN  event_data' =
               [s \in DOMAIN event_data \cup {asset.symbol} |->
                   IF s = asset.symbol
                   THEN PointsOf(rows, asset.allocation)
                   ELSE event_data[s]]
    /\ asset_idx' = asset_idx + 1
    /\ UNCHANGED <<portfolios, pc, portfolio, dates, middle_idx, middle_date,
                   simulation_results, openai, advice, response, harness>>

\* a history of five consecutive days, January 1 to 5 of a year, closing at
\* 100, 80, 60, 90, 110
ExampleCloses == <<100, 80, 60, 90, 110>>
ExampleYears == 2017..2024

ExampleRows(year) ==
    [k \in 1..Len(ExampleCloses) |->
        [timestamp |-> [year |-> year, month |-> 1, day |-> k],
         close     |-> ExampleCloses[k]]]

ExamplePortfolio(k) == [assets |-> <<Asset(k, 100)>>, investment_amount |-> NoAmount]

\* the store holds one portfolio of a single asset with allocation 100 and no
\* investment amount
InitExample ==
    /\ \E k \in 1..Len(Symbols) :
           portfolios = [id \in PortfolioIds |-> ExamplePortfolio(k)]
    /\ pc = "idle"
    /\ LocalsAtEntry
    /\ response = NoResponse
    /\ performance_data = <<>>
    /\ metrics = NoMetrics
    /\ market_data = <<>>
    /\ impact = NoImpact

NextExample ==
    \/ \E id \in PortfolioIds : Lookup(id)
    \/ \E known \in BOOLEAN, n \in 0..MaxMarketLen : AnalyzeEvent(known, n)
    \/ \E year \in ExampleYears : FetchAssetRows(ExampleRows(year))
    \/ FetchAssetRaises
    \/ AlignDates
    \/ \E scenario \in {"no_change", "withdraw", "add"} : RunScenario(scenario)
    \/ \E ok \in BOOLEAN : Advise(ok)
    \/ Finish

SpecExample == InitExample /\ [][NextExample]_vars

\* --------------------------------------------- the event analyzer on its own
MarketCloses == 0..MaxValue

\* what get_market_data_for_period may return: a close for each of the first
\* trading days, in date order
MarketDataInputs ==
    {[k \in 1..Len(f) |-> [date  |-> Strftime(TimestampList[k]),
                           close |-> R(f[k], 1)]] :
        f \in UNION {[1..n -> MarketCloses] : n \in 0..MaxMarketLen}}

InitImpact ==
    /\ portfolios = Empty
    /\ pc = "impact_call"
    /\ LocalsAtEntry
    /\ response = NoResponse
    /\ performance_data = <<>>
    /\ metrics = NoMetrics
    /\ market_data \in MarketDataInputs
    /\ impact = NoImpact

\* analyze_event from the market data on: the guard, then the call
AnalyzeMarketData ==
    /\ pc = "impact_call"
    /\ impact' = IF Len(market_data) < 2 THEN NoImpact
                 ELSE calculate_market_impact(market_data)
    /\ pc' = "impact_return"
    /\ UNCHANGED <<portfolios, locals, response, performance_data, metrics,
                   market_data>>

SpecImpact == InitImpact /\ [][AnalyzeMarketData]_vars

\* ================================================================= claims
Scenarios == {"no_change", "withdraw", "add"}
ScenarioNames == <<"No Changes", "20% Withdrawal", "20% Addition">>

\* the calendar day of a date string
Chrono(date) == Ordinal(Strptime(date))

\* the series the handler's call for a scenario yields in this state
SeriesFor(scenario) ==
    calculate_scenario_performance(event_data, dates, scenario,
                                   PivotArg(scenario), portfolio)

\* ---- C1
\* C1: for every value series of length >= 2 whose first value is 0,
\* calculate_performance_metrics returns normally (total_return reported as
\* Undefined or 0); no division-by-zero fault reaches the caller.
C1_ZeroFirstValueReturns ==
    (pc = "metrics_return" /\ Len(performance_data) >= 2
        /\ performance_data[1].value = Zero)
    => ~metrics.fault

\* ---- C2
\* C2: for every non-empty aligned axis the handler returns exactly three
\* results, in the order No Changes, 20% Withdrawal, 20% Addition.
C2_AllThreeReturned ==
    (pc = "done" /\ dates # <<>>)
    => /\ response.status = 200
       /\ [k \in 1..Len(simulation_results) |-> simulation_results[k].scenario]
              = ScenarioNames

\* ---- C3
\* series s is series h with every value at or after the pivot date multiplied
\* by num/10 and every earlier value unchanged
ScaledFromPivot(s, h, num) ==
    \A k \in 1..Len(dates) :
        s[k].value = IF Chrono(dates[k]) >= Chrono(middle_date)
                     THEN RMul(R(num, 10), h[k].value)
                     ELSE h[k].value

\* C3: at every axis date at or after the pivot date the Withdraw value is
\* 0.8 times and the Add value 1.2 times the Hold value, and before the pivot
\* the three values are equal, with and without an investment amount; for
\* the series the three calls yield and for the series the results hold.
C3_PivotScaling ==
    /\ pc = "no_change" =>
           /\ ScaledFromPivot(SeriesFor("withdraw"), SeriesFor("no_change"), 8)
           /\ ScaledFromPivot(SeriesFor("add"), SeriesFor("no_change"), 12)
    /\ Len(simulation_results) >= 2 =>
           ScaledFromPivot(simulation_results[2].performance,
                           simulation_results[1].performance, 8)
    /\ Len(simulation_results) >= 3 =>
           ScaledFromPivot(simulation_results[3].performance,
                           simulation_results[1].performance, 12)

C3_Witness ==
    /\ Len(simulation_results) = 3
    /\ portfolio.investment_amount.some
    /\ middle_idx >= 1
    /\ Cardinality(DOMAIN event_data) = 2
    /\ simulation_results[2].performance[Len(dates)].value
           # simulation_results[1].performance[Len(dates)].value
    /\ simulation_results[3].performance[1].value
           = simulation_results[1].performance[1].value

\* ---- C4
NoPricePoints == \A s \in DOMAIN event_data : Len(event_data[s]) = 0

\* C4: when the fetch loop ends with no price point for any asset, the next
\* step of the handler is the 400 "Insufficient market data for simulation"
\* answer, with no pivot selected, no result appended and no advice asked.
C4_EmptyAxisFailsFirst ==
    [][(pc = "fetch" /\ asset_idx > Len(portfolio.assets) /\ NoPricePoints)
       => /\ pc' = "done"
          /\ response' = [status |-> 400,
                          detail |-> "Insufficient market data for simulation"]
          /\ dates' = <<>>
          /\ middle_idx' = -1
          /\ middle_date' = NoDate
          /\ simulation_results' = <<>>
          /\ openai' = "not called"
          /\ advice' = NoAdvice]_vars

C4_Witness ==
    /\ pc = "done"
    /\ response.detail = "Insufficient market data for simulation"
    /\ DOMAIN event_data # {}

\* ---- C5
AllPointDates ==
    UNION {{event_data[s][k].date : k \in 1..Len(event_data[s])} :
              s \in DOMAIN event_data}

\* C5: the axis holds exactly the dates of the points of the per-asset
\* series, each once, in strictly increasing order (as strings and as
\* calendar days).
C5_AxisIsSortedUnion ==
    pc \in {"no_change", "done"} =>
        /\ {dates[k] : k \in 1..Len(dates)} = AllPointDates
        /\ \A i, j \in 1..Len(dates) :
               i < j => /\ StrLt(dates[i], dates[j])
                        /\ Chrono(dates[i]) < Chrono(dates[j])

C5_Witness ==
    /\ pc = "no_change"
    /\ Len(dates) >= 2
    /\ \E s \in DOMAIN event_data :
           /\ Len(event_data[s]) = 2
           /\ event_data[s][1].date = event_data[s][2].date
    /\ \E s \in DOMAIN event_data :
           /\ Len(event_data[s]) = 2
           /\ StrLt(event_data[s][2].date, event_data[s][1].date)

\* ---- C6
OnAxis(performance) ==
    /\ Len(performance) = Len(dates)
    /\ \A k \in 1..Len(dates) : performance[k].date = dates[k]

\* C6: on a non-empty axis each of the three scenario series has exactly one
\* entry per axis date, in axis order; for the series the three calls yield
\* and for the series the results hold.
C6_OneEntryPerAxisDate ==
    /\ pc = "no_change" =>
           /\ dates # <<>>
           /\ \A scenario \in Scenarios : OnAxis(SeriesFor(scenario))
    /\ \A i \in 1..Len(simulation_results) :
           OnAxis(simulation_results[i].performance)

C6_Witness ==
    /\ Len(simulation_results) = 3
    /\ Len(dates) >= 3
    /\ \E s \in DOMAIN event_data : Len(event_data[s]) < Len(dates)

\* ---- C7
NonDecreasing(pd) ==
    \A k \in 2..Len(pd) : RLeq(pd[k - 1].value, pd[k].value)

\* C7: for every value series the call yields a max_drawdown, which is >= 0,
\* and which is 0 if and only if the series is non-decreasing.
C7_DrawdownOfEverySeries ==
    pc = "metrics_return" =>
        /\ ~metrics.fault
        /\ RLeq(Zero, metrics.max_drawdown)
        /\ metrics.max_drawdown = Zero <=> NonDecreasing(performance_data)

\* what holds of max_drawdown whenever the call returns
DrawdownWhenReturned ==
    (pc = "metrics_return" /\ ~metrics.fault) =>
        /\ RLeq(Zero, metrics.max_drawdown)
        /\ metrics.max_drawdown = Zero <=> NonDecreasing(performance_data)

\* ---- C8
\* the first occurrence of the least value
Trough(pd) ==
    CHOOSE i \in 1..Len(pd) :
        /\ \A j \in 1..Len(pd) : RLeq(pd[i].value, pd[j].value)
        /\ \A j \in 1..(i - 1) : pd[j].value # pd[i].value

\* the later points at or above the first value
RecoveredAt(pd) ==
    {k \in (Trough(pd) + 1)..Len(pd) : RLeq(pd[1].value, pd[k].value)}

ExpectedRecovery(pd) ==
    IF Trough(pd) = Len(pd) \/ RecoveredAt(pd) = {} THEN NoDays
    ELSE LET first == CHOOSE k \in RecoveredAt(pd) : \A j \in RecoveredAt(pd) : k <= j
         IN  SomeDays(Chrono(pd[first].date) - Chrono(pd[Trough(pd)].date))

\* C8: for every value series of length >= 2 the call yields recovery_days:
\* absent when the trough (first occurrence of the least value) is the last
\* point or no later value reaches the first value, otherwise the calendar
\* days from the trough to the earliest later date whose value >= the first
\* value, which is >= 0.
C8_RecoveryOfEverySeries ==
    (pc = "metrics_return" /\ Len(performance_data) >= 2) =>
        /\ ~metrics.fault
        /\ metrics.recovery_days = ExpectedRecovery(performance_data)
        /\ metrics.recovery_days.days >= 0

\* what holds of recovery_days whenever the call returns
RecoveryWhenReturned ==
    (pc = "metrics_return" /\ Len(performance_data) >= 2 /\ ~metrics.fault) =>
        /\ metrics.recovery_days = ExpectedRecovery(performance_data)
        /\ metrics.recovery_days.days >= 0

\* ---- C9
HasHighestReturn(name, results) ==
    \E k \in 1..Len(results) :
        /\ results[k].scenario = name
        /\ \A j \in 1..Len(results) :
               RLeq(results[j].total_return, results[k].total_return)

\* C9 as stated: the best scenario of an answered simulation is the name of
\* the result with the highest total_return, however the chat completion
\* call ended.
C9_BestIsTopRanked ==
    (pc = "done" /\ response.status = 200)
    => HasHighestReturn(advice.best_scenario, simulation_results)

\* C9 as amended: the best scenario of an answered simulation is the name of
\* a result with the highest total_return when the chat completion call
\* returned, and "No Changes" when it raised.
C9_BestOrFallback ==
    (pc = "done" /\ response.status = 200)
    => /\ openai \in {"returned", "raised"}
       /\ openai = "returned"
              => HasHighestReturn(advice.best_scenario, simulation_results)
       /\ openai = "raised" => advice.best_scenario = "No Changes"

C9_Witness ==
    /\ pc = "done"
    /\ response.status = 200
    /\ openai = "returned"
    /\ advice.best_scenario = "20% Addition"
    /\ ~HasHighestReturn("No Changes", simulation_results)

\* ---- C10
\* C10: for a value series of fewer than two points the call returns
\* total_return = 0, max_drawdown = 0 and no recovery_days, whatever the
\* value of the single point; so do the three results of a simulation whose
\* axis has one date.
C10_ShortSeriesDefaults ==
    /\ (pc = "metrics_return" /\ Len(performance_data) < 2)
           => metrics = MetricsOf(Zero, Zero, NoDays)
    /\ Len(dates) = 1 =>
           \A i \in 1..Len(simulation_results) :
               /\ simulation_results[i].total_return = Zero
               /\ simulation_results[i].max_drawdown = Zero
               /\ simulation_results[i].recovery_days = NoDays

C10_Witness ==
    /\ pc = "metrics_return"
    /\ Len(performance_data) = 1
    /\ performance_data[1].value = Zero
    /\ metrics = MetricsOf(Zero, Zero, NoDays)

\* ---- C11
ValuesOf(performance) == [k \in 1..Len(performance) |-> performance[k].value]

Rationals(ints) == [k \in 1..Len(ints) |-> R(ints[k], 1)]

\* the request runs on a single asset with allocation 100, no investment
\* amount and closes 100, 80, 60, 90, 110 on January 1 to 5 of one year
IsWorkedExample ==
    /\ Len(portfolio.assets) = 1
    /\ portfolio.assets[1].allocation = R(100, 1)
    /\ ~portfolio.investment_amount.some
    /\ DOMAIN event_data = {portfolio.assets[1].symbol}
    /\ LET points == event_data[portfolio.assets[1].symbol]
       IN  /\ Len(points) = 5
           /\ [k \in 1..5 |-> points[k].close] = Rationals(<<100, 80, 60, 90, 110>>)
           /\ \A k \in 1..5 : points[k].allocation = R(100, 1)
           /\ \A k \in 1..5 :
                  /\ Strptime(points[k].date).year = Strptime(points[1].date).year
                  /\ Strptime(points[k].date).month = 1
                  /\ Strptime(points[k].date).day = k

\* C11: on the worked example the pivot is index 2 (January 3); the Hold
\* result has values 100, 80, 60, 90, 110, total_return 10, max_drawdown 40
\* and recovery_days 2; the Withdraw result has values 100, 80, 48, 72, 88,
\* total_return -12 and no recovery_days.
C11_WorkedExample ==
    IsWorkedExample =>
        /\ dates # <<>> =>
               /\ middle_idx = 2
               /\ middle_date = dates[3]
               /\ Strptime(middle_date).month = 1
               /\ Strptime(middle_date).day = 3
        /\ Len(simulation_results) >= 1 =>
               /\ ValuesOf(simulation_results[1].performance)
                      = Rationals(<<100, 80, 60, 90, 110>>)
               /\ simulation_results[1].total_return = R(10, 1)
               /\ simulation_results[1].max_drawdown = R(40, 1)
               /\ simulation_results[1].recovery_days = SomeDays(2)
        /\ Len(simulation_results) >= 2 =>
               /\ ValuesOf(simulation_results[2].performance)
                      = Rationals(<<100, 80, 48, 72, 88>>)
               /\ simulation_results[2].total_return = R(-12, 1)
               /\ simulation_results[2].recovery_days = NoDays

C11_Witness ==
    /\ IsWorkedExample
    /\ pc = "done"
    /\ response.status = 200
    /\ Len(simulation_results) = 3
    /\ simulation_results[1].scenario = "No Changes"
    /\ simulation_results[1].recovery_days = SomeDays(2)
    /\ simulation_results[2].scenario = "20% Withdrawal"
    /\ simulation_results[2].recovery_days = NoDays
    /\ Strptime(middle_date) = [year |-> 2024, month |-> 1, day |-> 3]

\* ---- C12
\* the scenario argument of the call that produced the i-th result
ScenarioOfResult(i) ==
    IF i = 1 THEN "no_change" ELSE IF i = 2 THEN "withdraw" ELSE "add"

\* a step of the handler that calls the valuator and the metrics calculator
\* leaves what they were given, and the store, as they were
CallsLeaveArguments ==
    pc \in Scenarios =>
        /\ event_data' = event_data
        /\ dates' = dates
        /\ middle_date' = middle_date
        /\ portfolio' = portfolio
        /\ portfolios' = portfolios

\* the series of every result so far is the series a second call of the
\* valuator with the same arguments yields now
SecondCallAgrees ==
    \A i \in 1..Len(simulation_results) :
        simulation_results[i].performance = SeriesFor(ScenarioOfResult(i))

\* C12: the valuator and the metrics calculator leave the per-asset series,
\* the axis, the portfolio and the store unchanged, and a second call of the
\* valuator with the same arguments, after any number of other scenario
\* evaluations, yields the series the first call yielded.
C12_CallsArePure == [][CallsLeaveArguments]_vars /\ []SecondCallAgrees

C12_Witness ==
    /\ pc = "done"
    /\ Len(simulation_results) = 3
    /\ Len(dates) >= 2
    /\ portfolio.investment_amount.some
    /\ simulation_results[1].performance = SeriesFor("no_change")
    /\ simulation_results[1].performance # simulation_results[3].performance

\* ---- C13
\* the factor the claim gives the 0-based axis position k - 1 for a scenario
\* whose factor is num/10
FactorAt(k, num) ==
    IF k - 1 >= Len(dates) \div 2 THEN R(num, 10) ELSE R(1, 1)

\* the pivot of a run is the axis element at index floor(len(axis) / 2), and
\* the factor of each call is 0.8 / 1.2 at exactly the positions from that
\* index on, 1 at every position for Hold
PivotIsMiddle ==
    dates # <<>> =>
        /\ middle_idx = Len(dates) \div 2
        /\ middle_date = dates[(Len(dates) \div 2) + 1]
        /\ PivotArg("withdraw") = PivotArg("add")
        /\ \A k \in 1..Len(dates) :
               /\ AdjustmentFactor("withdraw", PivotArg("withdraw"), dates[k])
                      = FactorAt(k, 8)
               /\ AdjustmentFactor("add", PivotArg("add"), dates[k]) = FactorAt(k, 12)
               /\ AdjustmentFactor("no_change", PivotArg("no_change"), dates[k])
                      = R(1, 1)

\* the values of the results: Withdraw and Add are Hold times the factor of
\* the position
ScaledByPosition ==
    \A i \in 2..Len(simulation_results) :
        \A k \in 1..Len(dates) :
            simulation_results[i].performance[k].value
                = RMul(FactorAt(k, IF i = 2 THEN 8 ELSE 12),
                       simulation_results[1].performance[k].value)

\* once chosen, the pivot stays until the handler answers
PivotChosenOnce ==
    pc \in Scenarios \cup {"advice"} =>
        /\ middle_idx' = middle_idx
        /\ middle_date' = middle_date

\* C13: the pivot is chosen once per run as the axis element at index
\* floor(len(axis) / 2), Withdraw and Add use the same pivot, and the 0.8 /
\* 1.2 factor is applied at exactly the axis positions with index >=
\* floor(len(axis) / 2), for every axis length >= 1.
C13_PivotIsMiddleIndex ==
    []PivotIsMiddle /\ []ScaledByPosition /\ [][PivotChosenOnce]_vars

C13_Witness ==
    /\ Len(simulation_results) = 3
    /\ Len(dates) = 3
    /\ middle_idx = 1
    /\ simulation_results[1].performance[1].value # Zero
    /\ simulation_results[2].performance[1].value
           = simulation_results[1].performance[1].value
    /\ simulation_results[2].performance[2].value
           # simulation_results[1].performance[2].value
    /\ simulation_results[3].performance[2].value
           # simulation_results[1].performance[2].value

\* ---- C14
\* the points of a series dated exactly d
PointsAt(series, d) == {k \in 1..Len(series) : series[k].date = d}

\* close(d) * allocation / 100 of a series with a point at d
Weighted(series, d) ==
    LET k == CHOOSE i \in PointsAt(series, d) : \A j \in PointsAt(series, d) : i <= j
    IN  R(series[k].close[1] * series[k].allocation[1],
          series[k].close[2] * series[k].allocation[2] * 100)

RECURSIVE SumOver(_, _)
SumOver(symbols, d) ==
    IF symbols = {} THEN Zero
    ELSE LET s == CHOOSE x \in symbols : TRUE
         IN  RAdd(Weighted(event_data[s], d), SumOver(symbols \ {s}, d))

\* the sum over the assets that have a point at d
WeightedSum(d) ==
    SumOver({s \in DOMAIN event_data : PointsAt(event_data[s], d) # {}}, d)

\* 1 for Hold and before the pivot date, else 0.8 for Withdraw, 1.2 for Add
FactorOn(scenario, d) ==
    IF scenario = "no_change" \/ Chrono(d) < Chrono(middle_date) THEN R(1, 1)
    ELSE IF scenario = "withdraw" THEN R(8, 10) ELSE R(12, 10)

ExpectedValue(scenario, d) ==
    LET adjusted == RMul(WeightedSum(d), FactorOn(scenario, d))
    IN  IF portfolio.investment_amount.some /\ adjusted[1] > 0
        THEN RMul(adjusted, portfolio.investment_amount.value)
        ELSE adjusted

ValuedAsStated(scenario, performance) ==
    \A k \in 1..Len(dates) :
        performance[k].value = ExpectedValue(scenario, dates[k])

\* C14: at every axis date the scenario value is the sum, over the assets
\* with a point at exactly that date, of close * allocation / 100 (an asset
\* without a point there adds 0, allocations as given), times the adjustment
\* factor, then times the investment amount if and only if one is configured
\* and the adjusted value is > 0; for the series the three calls yield and
\* for the series the results hold.
C14_ValueFormula ==
    /\ pc = "no_change" =>
           \A scenario \in Scenarios : ValuedAsStated(scenario, SeriesFor(scenario))
    /\ \A i \in 1..Len(simulation_results) :
           ValuedAsStated(ScenarioOfResult(i), simulation_results[i].performance)

\* a run on two assets whose allocations add up to 150, one of them with
\* points before and after an axis date but none at it, with an amount
C14_Witness ==
    /\ Len(simulation_results) = 3
    /\ portfolio.investment_amount.some
    /\ Len(dates) = 3
    /\ Cardinality(DOMAIN event_data) = 2
    /\ \E s \in DOMAIN event_data :
           /\ PointsAt(event_data[s], dates[1]) # {}
           /\ PointsAt(event_data[s], dates[2]) = {}
           /\ PointsAt(event_data[s], dates[3]) # {}
    /\ \E s \in DOMAIN event_data : \A k \in 1..3 : PointsAt(event_data[s], dates[k]) # {}
    /\ simulation_results[1].performance[2].value
           # simulation_results[1].performance[3].value

\* ---- C15
\* the run has an axis of at least 2 dates and a Hold series whose first and
\* last values are positive
HoldEndsPositive ==
    /\ Len(dates) >= 2
    /\ Len(simulation_results) >= 1
    /\ RLt(Zero, simulation_results[1].performance[1].value)
    /\ RLt(Zero, simulation_results[1].performance[Len(dates)].value)

\* C15: in every simulation whose axis has at least 2 dates and whose Hold
\* series has positive first and last values, the three series share the
\* first value, the last value is the Hold one times 0.8 / 1.2, and
\* total_return(Add) > total_return(Hold) > total_return(Withdraw); so the
\* scenario with the highest total_return is "20% Addition", and it is the
\* one the ranking of generate_investment_advice picks.
C15_AddBeatsHoldBeatsWithdraw ==
    /\ (HoldEndsPositive /\ Len(simulation_results) >= 2) =>
           /\ simulation_results[2].performance[1].value
                  = simulation_results[1].performance[1].value
           /\ simulation_results[2].performance[Len(dates)].value
                  = RMul(R(8, 10), simulation_results[1].performance[Len(dates)].value)
           /\ RLt(simulation_results[2].total_return, simulation_results[1].total_return)
    /\ (HoldEndsPositive /\ Len(simulation_results) = 3) =>
           /\ simulation_results[3].performance[1].value
                  = simulation_results[1].performance[1].value
           /\ simulation_results[3].performance[Len(dates)].value
                  = RMul(R(12, 10), simulation_results[1].performance[Len(dates)].value)
           /\ RLt(simulation_results[1].total_return, simulation_results[3].total_return)
           /\ BestScenario(simulation_results) = "20% Addition"
           /\ ~HasHighestReturn("No Changes", simulation_results)
           /\ ~HasHighestReturn("20% Withdrawal", simulation_results)
           /\ openai = "returned" => advice.best_scenario = "20% Addition"

\* a run whose Hold value fell over the window: all three returns negative
C15_Witness ==
    /\ HoldEndsPositive
    /\ Len(simulation_results) = 3
    /\ openai = "returned"
    /\ RLt(simulation_results[3].total_return, Zero)
    /\ RLt(simulation_results[2].total_return, simulation_results[1].total_return)
    /\ RLt(simulation_results[1].total_return, simulation_results[3].total_return)
    /\ advice.best_scenario = "20% Addition"

\* ---- C16
\* the list passes the guard of analyze_event and its closes are positive
PassesGuard(data) ==
    /\ Len(data) >= 2
    /\ \A k \in 1..Len(data) : RLt(Zero, data[k].close)

\* C16: for every market-data list of length >= 2 with positive closes,
\* calculate_market_impact returns an impact record and raises no arithmetic
\* fault, its pre-event window min(30, len // 3) not being empty.
C16_MarketImpactReturns ==
    (pc = "impact_return" /\ PassesGuard(market_data)) =>
        /\ impact.kind \in {"pre only", "full"}
        /\ ~MarketImpactFaults(Len(market_data))

\* what holds from three points on: the full record is returned
MarketImpactWhenLonger ==
    (pc = "impact_return" /\ PassesGuard(market_data) /\ Len(market_data) >= 3) =>
        /\ impact.kind = "full"
        /\ RLt(Zero, impact.pre_event_value)

====
